---- MODULE Spec2Model ----
(***************************************************************************)
(* A model of the OrangeHRM automation harness: the element interaction   *)
(* layer (pageobjects/base_page.py) driving one browser session, and the  *)
(* configuration provider (utilities/readproperties.py).                  *)
(*                                                                         *)
(* Strings are sequences of one-character strings, so that startswith,    *)
(* rstrip, lstrip, strip and "in" are computed as Python computes them.   *)
(* An Optional value is a record [some, v]; Python's None is None.        *)
(* The browser is the environment: every driver command may succeed or    *)
(* raise, and every wait may succeed or time out.  The clock counts        *)
(* polling intervals.                                                      *)
(***************************************************************************)
EXTENDS Integers, Sequences, FiniteSets, TLC

VARIABLES
    pc,              \* control point of the call in progress ("idle", ..., "done")
    call,            \* the arguments of the call in progress
    log,             \* driver commands issued by the call in progress, in order
    exc,             \* "none", or the exception the call ended with
    msg,             \* the screenshot path carried by the exception, <<>> if none
    ret,             \* the value the call returned
    now,             \* time.time()
    end,             \* deadline of the polling loop in progress
    el,              \* the element handle resolved by the call in progress
    last_val,        \* type_and_verify's last_val
    field,           \* browser side: the value attribute left by the fallback script
    seen,            \* history: outcome of the last polling read and of the fallback read
    default_timeout, \* BasePage.default_timeout
    env,             \* os.environ
    fileExists,      \* whether configuration/config.ini exists
    fileContent,     \* section "common info" of the file on disk: key -> Optional
    config,          \* ReadConfig._config: None or the parsed content
    reads,           \* number of times a file was parsed
    altFile,         \* the file at the explicit path given to reload(path): None if missing
    run              \* the pytest run of one test item (testcases/conftest.py)

pagevars == <<pc, call, log, exc, msg, ret, now, end, el, last_val, field, seen, default_timeout>>
cfgvars  == <<env, fileExists, fileContent, config, reads, altFile>>
vars     == <<pagevars, cfgvars, run>>

----------------------------------------------------------------------------
(* Bounds of the model *)

MaxTimeout == 2
MaxSlashes == 2
MaxReads   == 3

----------------------------------------------------------------------------
(* Python values *)

None     == [some |-> FALSE, v |-> <<>>]
Some(x)  == [some |-> TRUE, v |-> x]

\* Python's  x or d  for an Optional string x
OrElse(x, d) == IF x.some /\ x.v # <<>> THEN x.v ELSE d

HTTP  == <<"h", "t", "t", "p", ":", "/", "/">>
HTTPS == <<"h", "t", "t", "p", "s", ":", "/", "/">>

StartsWith(s, p) == Len(s) >= Len(p) /\ SubSeq(s, 1, Len(p)) = p

\* url.startswith(("http://", "https://"))
IsAbsolute(s) == StartsWith(s, HTTP) \/ StartsWith(s, HTTPS)

RECURSIVE RStrip(_, _)
RStrip(s, chars) ==
    IF s # <<>> /\ s[Len(s)] \in chars THEN RStrip(SubSeq(s, 1, Len(s) - 1), chars) ELSE s

RECURSIVE LStrip(_, _)
LStrip(s, chars) ==
    IF s # <<>> /\ s[1] \in chars THEN LStrip(SubSeq(s, 2, Len(s)), chars) ELSE s

Whitespace == {" ", "\t", "\n"}

\* str.strip()
Strip(s) == LStrip(RStrip(s, Whitespace), Whitespace)

\* Python's  a in b  on strings
Contains(b, a) ==
    \E i \in 0..(Len(b) - Len(a)) : SubSeq(b, i + 1, i + Len(a)) = a

RECURSIVE Slashes(_)
Slashes(n) == IF n = 0 THEN <<>> ELSE <<"/">> \o Slashes(n - 1)

----------------------------------------------------------------------------
(* utilities/readproperties.py *)

Sections == {"common info", "other"}
Keys     == {"user_login_url", "user_email", "user_password", "search_item", "pim_emp_name"}
EnvVars  == {"ADMIN_LOGIN_URL", "ADMIN_EMAIL", "ADMIN_PASSWORD", "BASE_URL"}
NoEnvVar == "-"

\* os.getenv(name)
getenv(e, name) == IF name \in DOMAIN e THEN e[name] ELSE None

\* _ensure_loaded without line 20: every call reads the file.
ensure_loaded_NoCache(cfg, exists, content, n) ==
    IF ~exists THEN [config |-> cfg, reads |-> n, exc |-> "FileNotFoundError"]
    ELSE [config |-> Some(content), reads |-> n + 1, exc |-> "none"]

\* ReadConfig._ensure_loaded: the state of the cache after the call, and whether
\* it raised FileNotFoundError.
ensure_loaded(cfg, exists, content, n) ==
    IF cfg.some THEN [config |-> cfg, reads |-> n, exc |-> "none"]
    ELSE IF ~exists THEN [config |-> cfg, reads |-> n, exc |-> "FileNotFoundError"]
    ELSE [config |-> Some(content), reads |-> n + 1, exc |-> "none"]

\* ConfigParser.get(section, key, fallback=fallback)
parser_get(parsed, section, key, fallback) ==
    IF section = "common info" /\ key \in DOMAIN parsed /\ parsed[key].some
    THEN parsed[key]
    ELSE fallback

\* ReadConfig._get_raw
get_raw(cfg, exists, content, n, section, key, fallback) ==
    LET l == ensure_loaded(cfg, exists, content, n) IN
    IF l.exc # "none"
    THEN [val |-> None, config |-> l.config, reads |-> l.reads, exc |-> l.exc]
    ELSE [val |-> parser_get(l.config.v, section, key, fallback),
          config |-> l.config, reads |-> l.reads, exc |-> "none"]

\* ReadConfig.get
get(e, cfg, exists, content, n, section, key, fallback, env_var) ==
    IF env_var # NoEnvVar /\ getenv(e, env_var).some
    THEN [val |-> getenv(e, env_var), config |-> cfg, reads |-> n, exc |-> "none"]
    ELSE get_raw(cfg, exists, content, n, section, key, fallback)

\* ReadConfig.get_user_login_url
get_user_login_url(e, cfg, exists, content, n) ==
    LET r == get(e, cfg, exists, content, n, "common info", "user_login_url", None,
                 "ADMIN_LOGIN_URL")
    IN  [r EXCEPT !.val = Some(OrElse(r.val, <<>>))]

\* The wrappers: cls.get("common info", key, env_var=...) or ""
wrapper(e, cfg, exists, content, n, key, env_var) ==
    LET r == get(e, cfg, exists, content, n, "common info", key, None, env_var)
    IN  [r EXCEPT !.val = Some(OrElse(r.val, <<>>))]

get_user_email(e, cfg, exists, content, n) ==
    wrapper(e, cfg, exists, content, n, "user_email", "ADMIN_EMAIL")

get_user_password(e, cfg, exists, content, n) ==
    wrapper(e, cfg, exists, content, n, "user_password", "ADMIN_PASSWORD")

get_search_item_name(e, cfg, exists, content, n) ==
    wrapper(e, cfg, exists, content, n, "search_item", NoEnvVar)

get_emp_initial_name(e, cfg, exists, content, n) ==
    wrapper(e, cfg, exists, content, n, "pim_emp_name", "ADMIN_PASSWORD")

Digits == {"0", "1", "2", "3", "4", "5", "6", "7", "8", "9"}

DigitVal(c) ==
    CASE c = "0" -> 0 [] c = "1" -> 1 [] c = "2" -> 2 [] c = "3" -> 3 [] c = "4" -> 4
      [] c = "5" -> 5 [] c = "6" -> 6 [] c = "7" -> 7 [] c = "8" -> 8 [] c = "9" -> 9

RECURSIVE Decimal(_)
Decimal(s) == IF s = <<>> THEN 0 ELSE 10 * Decimal(SubSeq(s, 1, Len(s) - 1)) + DigitVal(s[Len(s)])

\* int(raw): surrounding whitespace, an optional sign, decimal digits; anything
\* else is a ValueError.
py_int(raw) ==
    LET s      == Strip(raw)
        signed == s # <<>> /\ s[1] \in {"+", "-"}
        digits == IF signed THEN SubSeq(s, 2, Len(s)) ELSE s
    IN  IF digits # <<>> /\ \A i \in 1..Len(digits) : digits[i] \in Digits
        THEN [ok |-> TRUE, v |-> IF signed /\ s[1] = "-" THEN 0 - Decimal(digits)
                                 ELSE Decimal(digits)]
        ELSE [ok |-> FALSE, v |-> 0]

\* str.lower() on the letters of the words below
LowerChar(c) ==
    CASE c = "A" -> "a" [] c = "E" -> "e" [] c = "F" -> "f" [] c = "L" -> "l"
      [] c = "N" -> "n" [] c = "O" -> "o" [] c = "R" -> "r" [] c = "S" -> "s"
      [] c = "T" -> "t" [] c = "U" -> "u" [] c = "Y" -> "y" [] OTHER -> c

Lower(s) == [i \in 1..Len(s) |-> LowerChar(s[i])]

TrueWords  == {<<"1">>, <<"y", "e", "s">>, <<"t", "r", "u", "e">>, <<"o", "n">>}
FalseWords == {<<"0">>, <<"n", "o">>, <<"f", "a", "l", "s", "e">>, <<"o", "f", "f">>}

\* ConfigParser.getboolean(section, key): the value in the parsed file
getboolean(parsed, section, key) ==
    LET raw == parser_get(parsed, section, key, None) IN
    IF ~raw.some THEN [exc |-> "NoOptionError", v |-> FALSE]
    ELSE IF Lower(raw.v) \in TrueWords THEN [exc |-> "none", v |-> TRUE]
    ELSE IF Lower(raw.v) \in FalseWords THEN [exc |-> "none", v |-> FALSE]
    ELSE [exc |-> "ValueError", v |-> FALSE]

\* ReadConfig.get_int
get_int(e, cfg, exists, content, n, section, key, fallback, env_var) ==
    LET r == get(e, cfg, exists, content, n, section, key, None, env_var) IN
    IF r.exc # "none" THEN r
    ELSE IF ~r.val.some THEN [r EXCEPT !.val = fallback]
    ELSE IF py_int(r.val.v).ok THEN [r EXCEPT !.val = Some(py_int(r.val.v).v)]
    ELSE [r EXCEPT !.val = None, !.exc = "ValueError"]

\* ReadConfig.get_bool
get_bool(e, cfg, exists, content, n, section, key, fallback, env_var) ==
    LET r == get(e, cfg, exists, content, n, section, key, None, env_var) IN
    IF r.exc # "none" THEN r
    ELSE IF ~r.val.some THEN [r EXCEPT !.val = fallback]
    ELSE IF ~r.config.some THEN [r EXCEPT !.val = None, !.exc = "AttributeError"]
    ELSE LET b == getboolean(r.config.v, section, key) IN
         IF b.exc = "none" THEN [r EXCEPT !.val = Some(b.v)]
         ELSE [r EXCEPT !.val = None, !.exc = b.exc]

\* ReadConfig.reload
reload(cfg, exists, content, n) == ensure_loaded(None, exists, content, n)

----------------------------------------------------------------------------
(* pageobjects/base_page.py: the browser session *)

Locators  == {"loc"}
NoLocator == "-"
Elements  == {"e1", "e2"}
NoElement == "-"

\* One command sent to the browser session: its argument, whether it returned
\* ("ok"), timed out or raised ("fault"), and what it returned.
Out(c, a, r, o) == [cmd |-> c, arg |-> a, res |-> r, out |-> o]
Cmd(c, a, r)    == Out(c, a, r, <<>>)

Count(l, c) == Cardinality({i \in 1..Len(l) : l[i].cmd = c})

\* t = timeout if timeout is not None else self.default_timeout
Effective(timeout, dflt) == IF timeout.some THEN timeout.v ELSE dflt

NoCall ==
    [op |-> "-", url |-> <<>>, path_or_url |-> <<>>, wait_for_locator |-> NoLocator, timeout |-> None,
     text |-> <<>>, clear_first |-> FALSE, allow_partial |-> FALSE,
     send_enter |-> FALSE, locator |-> NoLocator, accepts |-> FALSE, rendered |-> <<>>,
     section |-> "-", key |-> "-", fallback |-> None, env_var |-> NoEnvVar]

\* No test item is running.
NoRun == [phase |-> "-"]

\* f"screenshots/<prefix>_{int(time.time())}.png"
ShotName(prefix, ts) == <<prefix, ts>>

save_screenshot_DefaultName(name, ts) ==
    [written |-> IF name # <<>> THEN name ELSE ShotName("snap", ts),
     returned |-> ShotName("snap", ts)]

\* BasePage.save_screenshot: the file the driver is told to write, and the path
\* returned to the caller.
save_screenshot(name, ts) ==
    LET fname == IF name # <<>> THEN name ELSE ShotName("snap", ts)
    IN  [written |-> fname, returned |-> fname]

\* One read of the field, or none yet.
NoRead     == [kind |-> "none", v |-> <<>>]
FaultRead  == [kind |-> "fault", v |-> <<>>]
Value(v)   == [kind |-> "value", v |-> v]

\* History of the reads of one call: the last read of the polling loop, the
\* read of the scripted fallback, the last read that returned a value, and the
\* outcome of the fallback's script.
NoneSeen == [poll |-> NoRead, js |-> NoRead, last |-> NoRead, script |-> "none"]

Finish(e, m, r) ==
    /\ pc' = "done"
    /\ exc' = e
    /\ msg' = m
    /\ ret' = r

----------------------------------------------------------------------------
(* BasePage.open_url *)

CallOpenUrl(url, loc, timeout) ==
    /\ pc = "idle"
    /\ pc' = "open_url"
    /\ call' = [NoCall EXCEPT !.op = "open_url", !.url = url,
                              !.wait_for_locator = loc, !.timeout = timeout]
    /\ UNCHANGED <<log, exc, msg, ret, now, end, el, last_val, field, seen,
                   default_timeout, cfgvars, run>>

ValidUrl_NoSchemeCheck(url) == url # <<>>

\* lines 36-39: the argument checks
ValidUrl(url) == url # <<>> /\ IsAbsolute(url)

OU_Validate ==
    /\ pc = "open_url"
    /\ IF ValidUrl(call.url)
       THEN pc' = "ou_get" /\ UNCHANGED <<exc, msg, ret>>
       ELSE Finish("ValueError", <<>>, <<>>)
    /\ UNCHANGED <<call, log, now, end, el, last_val, field, seen, default_timeout, cfgvars, run>>

\* lines 43-48: driver.get(url); a fault is screenshotted and re-raised
OU_Get ==
    /\ pc = "ou_get"
    /\ \E r \in {"ok", "fault"} :
          /\ log' = Append(log, Cmd("get", call.url, r))
          /\ pc' = IF r = "ok" THEN "ou_ready" ELSE "ou_get_shot"
    /\ UNCHANGED <<call, exc, msg, ret, now, end, el, last_val, field, seen,
                   default_timeout, cfgvars, run>>

OU_GetShot ==
    /\ pc = "ou_get_shot"
    /\ \E r \in {"ok", "fault"} :
          LET s == save_screenshot(ShotName("open_url_error", now), now) IN
          /\ log' = Append(log, Cmd("screenshot", s.written, r))
          /\ Finish("WebDriverException", <<>>, <<>>)
    /\ UNCHANGED <<call, now, end, el, last_val, field, seen, default_timeout, cfgvars, run>>

\* line 60: if wait_for_locator
AfterReady == IF call.wait_for_locator # NoLocator THEN "ou_locator" ELSE "done"

OU_Ready_Raises ==
    /\ pc = "ou_ready"
    /\ \E r \in {"ok", "timeout", "fault"} :
          /\ log' = Append(log, Cmd("wait_ready", <<>>, r))
          /\ now' = now
          /\ CASE r = "ok"      -> /\ pc' = AfterReady
                                   /\ UNCHANGED <<exc, msg, ret>>
               [] r = "timeout" -> Finish("TimeoutException", <<>>, <<>>)
               [] r = "fault"   -> Finish("WebDriverException", <<>>, <<>>)
    /\ UNCHANGED <<call, end, el, last_val, field, seen, default_timeout, cfgvars, run>>

\* lines 51-57: wait for document.readyState == "complete"
OU_Ready ==
    /\ pc = "ou_ready"
    /\ LET t == Effective(call.timeout, default_timeout) IN
       \E r \in {"ok", "timeout", "fault"} :
          /\ log' = Append(log, Cmd("wait_ready", <<>>, r))
          /\ now' = IF r = "timeout" THEN now + t ELSE now
          /\ CASE r = "ok"      -> /\ pc' = AfterReady
                                   /\ UNCHANGED <<exc, msg, ret>>
               [] r = "timeout" -> /\ pc' = "ou_ready_shot"
                                   /\ UNCHANGED <<exc, msg, ret>>
               [] r = "fault"   -> Finish("WebDriverException", <<>>, <<>>)
    /\ UNCHANGED <<call, end, el, last_val, field, seen, default_timeout, cfgvars, run>>

OU_ReadyShot ==
    /\ pc = "ou_ready_shot"
    /\ \E r \in {"ok", "fault"} :
          LET s == save_screenshot(ShotName("open_url_readystate_timeout", now), now) IN
          /\ log' = Append(log, Cmd("screenshot", s.written, r))
          /\ IF r = "ok"
             THEN pc' = AfterReady /\ UNCHANGED <<exc, msg, ret>>
             ELSE Finish("WebDriverException", <<>>, <<>>)
    /\ UNCHANGED <<call, now, end, el, last_val, field, seen, default_timeout, cfgvars, run>>

\* lines 60-63: wait for the stabilizing locator to be visible
OU_Locator ==
    /\ pc = "ou_locator"
    /\ LET t == Effective(call.timeout, default_timeout) IN
       \E r \in {"ok", "timeout", "fault"} :
          /\ log' = Append(log, Cmd("wait_visible", call.wait_for_locator, r))
          /\ now' = IF r = "timeout" THEN now + t ELSE now
          /\ CASE r = "ok"      -> /\ pc' = "done"
                                   /\ UNCHANGED <<exc, msg, ret>>
               [] r = "timeout" -> /\ pc' = "ou_locator_shot"
                                   /\ UNCHANGED <<exc, msg, ret>>
               [] r = "fault"   -> Finish("WebDriverException", <<>>, <<>>)
    /\ UNCHANGED <<call, end, el, last_val, field, seen, default_timeout, cfgvars, run>>

\* lines 64-66: a screenshot, then AssertionError naming its path
OU_LocatorShot ==
    /\ pc = "ou_locator_shot"
    /\ \E r \in {"ok", "fault"} :
          LET s == save_screenshot(ShotName("open_url_wait_for_locator_timeout", now), now) IN
          /\ log' = Append(log, Cmd("screenshot", s.written, r))
          /\ IF r = "ok"
             THEN Finish("AssertionError", s.returned, <<>>)
             ELSE Finish("WebDriverException", <<>>, <<>>)
    /\ UNCHANGED <<call, now, end, el, last_val, field, seen, default_timeout, cfgvars, run>>

----------------------------------------------------------------------------
(* BasePage.open *)

CallOpen(path_or_url, loc, timeout) ==
    /\ pc = "idle"
    /\ pc' = "open"
    /\ call' = [NoCall EXCEPT !.op = "open", !.path_or_url = path_or_url,
                              !.wait_for_locator = loc, !.timeout = timeout]
    /\ UNCHANGED <<log, exc, msg, ret, now, end, el, last_val, field, seen,
                   default_timeout, cfgvars, run>>

\* lines 81-86: ReadConfig.get_user_login_url(), or BASE_URL when that raises
resolve_base(e, cfg, exists, content, n) ==
    LET r == get_user_login_url(e, cfg, exists, content, n) IN
    [base   |-> IF r.exc = "none" THEN r.val.v
                ELSE Strip(OrElse(getenv(e, "BASE_URL"), <<>>)),
     config |-> r.config,
     reads  |-> r.reads]

join_Concat(base, path) ==
    (IF base # <<>> /\ base[Len(base)] = "/" THEN SubSeq(base, 1, Len(base) - 1) ELSE base)
        \o <<"/">> \o LStrip(path, {"/"})

\* line 92
join(base, path) == RStrip(base, {"/"}) \o <<"/">> \o LStrip(path, {"/"})

O_Open ==
    /\ pc = "open"
    /\ IF IsAbsolute(call.path_or_url)
       THEN /\ pc' = "open_url"
            /\ call' = [call EXCEPT !.url = call.path_or_url]
            /\ UNCHANGED <<exc, msg, ret, config, reads>>
       ELSE LET b == resolve_base(env, config, fileExists, fileContent, reads) IN
            /\ config' = b.config
            /\ reads' = b.reads
            /\ IF b.base = <<>>
               THEN Finish("RuntimeError", <<>>, <<>>) /\ UNCHANGED call
               ELSE /\ pc' = "open_url"
                    /\ call' = [call EXCEPT !.url = join(b.base, call.path_or_url)]
                    /\ UNCHANGED <<exc, msg, ret>>
    /\ UNCHANGED <<log, now, end, el, last_val, field, seen, default_timeout,
                   env, fileExists, fileContent, altFile, run>>

\* The call is over; the next one starts from a clean slate.
Return ==
    /\ pc = "done"
    /\ pc' = "idle"
    /\ call' = NoCall
    /\ log' = <<>>
    /\ exc' = "none"
    /\ msg' = <<>>
    /\ ret' = <<>>
    /\ now' = 0
    /\ end' = 0
    /\ el' = NoElement
    /\ last_val' = <<>>
    /\ field' = None
    /\ seen' = NoneSeen
    /\ UNCHANGED <<default_timeout, cfgvars, run>>

----------------------------------------------------------------------------
(* Navigation: the calls and environments explored *)

Timeouts == {None} \cup {Some(t) : t \in 0..MaxTimeout}

Base(host, n) == HTTP \o <<host>> \o Slashes(n)

NavUrls ==
    {<<>>, <<"h">>, <<"/", "p">>, <<"h", "t", "t", "p", ":", "/", "h">>,
     Base("h", 0), HTTPS \o <<"h">>}

NavPaths ==
    {Slashes(n) \o rest : n \in 0..MaxSlashes, rest \in {<<>>, <<"p">>}}
        \cup {Base("a", 1) \o <<"p">>}

NavLoginEnv  == {None, Some(<<>>)} \cup {Some(Base("l", n)) : n \in 0..MaxSlashes}
NavLoginFile == {None, Some(<<>>), Some(Base("f", 1))}
NavBaseEnv   == {None, Some(<<" ">>), Some(<<" ">> \o Base("e", 1) \o <<" ">>)}

EmptyEnv  == [v \in EnvVars |-> None]
EmptyFile == [k \in Keys |-> None]

PageInit ==
    /\ pc = "idle"
    /\ call = NoCall
    /\ log = <<>>
    /\ exc = "none"
    /\ msg = <<>>
    /\ ret = <<>>
    /\ now = 0
    /\ end = 0
    /\ el = NoElement
    /\ last_val = <<>>
    /\ field = None
    /\ seen = NoneSeen
    /\ default_timeout \in 1..MaxTimeout

NavInit ==
    /\ PageInit
    /\ \E a \in NavLoginEnv, b \in NavBaseEnv :
          env = [EmptyEnv EXCEPT !["ADMIN_LOGIN_URL"] = a, !["BASE_URL"] = b]
    /\ fileExists \in BOOLEAN
    /\ \E f \in NavLoginFile :
          fileContent = IF fileExists THEN [EmptyFile EXCEPT !["user_login_url"] = f]
                        ELSE EmptyFile
    /\ config = None
    /\ reads = 0
    /\ altFile = None
    /\ run = NoRun

NavNext ==
    \/ \E u \in NavUrls, l \in Locators \cup {NoLocator}, t \in Timeouts :
          CallOpenUrl(u, l, t)
    \/ \E p \in NavPaths, l \in Locators \cup {NoLocator}, t \in Timeouts :
          CallOpen(p, l, t)
    \/ O_Open
    \/ OU_Validate
    \/ OU_Get
    \/ OU_GetShot
    \/ OU_Ready
    \/ OU_ReadyShot
    \/ OU_Locator
    \/ OU_LocatorShot
    \/ Return

SpecNav == NavInit /\ [][NavNext]_vars

----------------------------------------------------------------------------
(* Navigation: properties *)

NoFault(l) == \A i \in 1..Len(l) : l[i].res # "fault"

Has(l, c, r) == \E i \in 1..Len(l) : l[i].cmd = c /\ l[i].res = r

IsShot(entry, prefix) ==
    entry.cmd = "screenshot" /\ Len(entry.arg) = 2 /\ entry.arg[1] = prefix

\* C1: for a non-empty http(s) URL, open_url issues exactly one driver.get, of
\* that URL; a ready-state timeout is never raised: it is followed by one
\* screenshot, and without a stabilizing locator the call returns normally
\* whenever no driver command itself faulted.
C1_OneNavigationReadyTimeoutNotRaised ==
    /\ Count(log, "get") <= 1
    /\ (pc = "done" /\ ValidUrl(call.url)) =>
          /\ Count(log, "get") = 1
          /\ log[1] = Cmd("get", call.url, log[1].res)
          /\ exc # "TimeoutException"
          /\ (call.wait_for_locator = NoLocator /\ NoFault(log)) => exc = "none"
          /\ \A i \in 1..Len(log) :
                (log[i].cmd = "wait_ready" /\ log[i].res = "timeout") =>
                    /\ Len(log) > i
                    /\ IsShot(log[i + 1], "open_url_readystate_timeout")

C1_Witness ==
    /\ pc = "done"
    /\ call.op = "open_url"
    /\ call.wait_for_locator = NoLocator
    /\ Has(log, "wait_ready", "timeout")
    /\ Has(log, "screenshot", "ok")
    /\ exc = "none"

\* C2: open_url with an empty URL or one that does not start with http:// or
\* https:// ends with ValueError and sends nothing to the browser session.
C2_InvalidUrlFailsBeforeAnyCommand ==
    (call.op = "open_url" /\ ~(call.url # <<>> /\ IsAbsolute(call.url))) =>
        /\ log = <<>>
        /\ pc \in {"open_url", "done"}
        /\ pc = "done" => exc = "ValueError"

C2_Witness ==
    /\ pc = "done"
    /\ call.op = "open_url"
    /\ call.url # <<>>
    /\ ~IsAbsolute(call.url)
    /\ exc = "ValueError"

\* C3: when the stabilizing locator's wait times out, the next and last command
\* is a screenshot named open_url_wait_for_locator_timeout, the call fails, and
\* (the capture not faulting) it fails with AssertionError carrying the path of
\* that screenshot, whether or not the ready-state wait timed out before.
C3_LocatorTimeoutCarriesItsScreenshot ==
    (pc = "done" /\ Has(log, "wait_visible", "timeout")) =>
        LET n == Len(log) IN
        /\ n >= 3
        /\ log[n - 1].cmd = "wait_visible"
        /\ IsShot(log[n], "open_url_wait_for_locator_timeout")
        /\ exc # "none"
        /\ log[n].res = "ok" => (exc = "AssertionError" /\ msg = log[n].arg)

C3_Witness ==
    /\ pc = "done"
    /\ Has(log, "wait_ready", "timeout")
    /\ Has(log, "wait_visible", "timeout")
    /\ exc = "AssertionError"
    /\ msg = log[Len(log)].arg
    /\ Count(log, "screenshot") = 2

NavCores == {HTTP \o <<h>> : h \in {"l", "f", "e"}}
NavRests == {<<>>, <<"p">>}

\* C4: for a base made of a core and any number of trailing slashes and a path
\* made of any number of leading slashes and a rest, open() navigates to
\* core + "/" + rest; an absolute argument goes to open_url unchanged.
C4_JoinWithExactlyOneSlash ==
    (call.op = "open" /\ pc # "open" /\ exc # "RuntimeError") =>
        /\ IsAbsolute(call.path_or_url) => call.url = call.path_or_url
        /\ ~IsAbsolute(call.path_or_url) =>
              \A core \in NavCores, rest \in NavRests, n, m \in 0..MaxSlashes :
                 ( /\ resolve_base(env, config, fileExists, fileContent, reads).base
                         = core \o Slashes(n)
                   /\ call.path_or_url = Slashes(m) \o rest ) =>
                       call.url = core \o <<"/">> \o rest
        /\ log # <<>> => log[1] = Cmd("get", call.url, log[1].res)

C4_Witness ==
    /\ pc = "done"
    /\ call.op = "open"
    /\ call.path_or_url = Slashes(MaxSlashes) \o <<"p">>
    /\ env["ADMIN_LOGIN_URL"] = Some(Base("l", MaxSlashes))
    /\ log # <<>>
    /\ log[1] = Cmd("get", HTTP \o <<"l", "/", "p">>, "ok")

\* C5: for a non-absolute path, open() uses the Config Provider's login URL,
\* falls back to BASE_URL when the provider yields no base URL, and raises
\* RuntimeError, before any navigation, exactly when neither yields one.
C5_BaseUrlFallback ==
    (pc = "done" /\ call.op = "open" /\ ~IsAbsolute(call.path_or_url)) =>
        LET p        == get_user_login_url(env, config, fileExists, fileContent, reads)
            provider == IF p.exc = "none" THEN p.val.v ELSE <<>>
            fromEnv  == Strip(OrElse(getenv(env, "BASE_URL"), <<>>))
        IN  /\ exc = "RuntimeError" <=> (provider = <<>> /\ fromEnv = <<>>)
            /\ exc = "RuntimeError" => log = <<>>
            /\ provider # <<>> => call.url = join(provider, call.path_or_url)
            /\ (provider = <<>> /\ fromEnv # <<>>) =>
                   call.url = join(fromEnv, call.path_or_url)

----------------------------------------------------------------------------
(* BasePage.click *)

CallClick(locator, timeout) ==
    /\ pc = "idle"
    /\ pc' = "click"
    /\ call' = [NoCall EXCEPT !.op = "click", !.locator = locator, !.timeout = timeout]
    /\ UNCHANGED <<log, exc, msg, ret, now, end, el, last_val, field, seen,
                   default_timeout, cfgvars, run>>

\* BasePage._wait with one of the expected conditions of find, find_visible and
\* find_clickable: the element found, TimeoutException, or a driver fault.
Wait(state, next) ==
    LET t == Effective(call.timeout, default_timeout) IN
    \E r \in {"ok", "timeout", "fault"}, e \in Elements :
       /\ log' = Append(log, Cmd(state, call.locator, r))
       /\ now' = IF r = "timeout" THEN now + t ELSE now
       /\ CASE r = "ok"      -> /\ el' = e
                                /\ pc' = next
                                /\ UNCHANGED <<exc, msg, ret>>
            [] r = "timeout" -> /\ Finish("TimeoutException", <<>>, <<>>)
                                /\ UNCHANGED el
            [] r = "fault"   -> /\ Finish("WebDriverException", <<>>, <<>>)
                                /\ UNCHANGED el

\* line 115
CL_Find ==
    /\ pc = "click"
    /\ Wait("wait_clickable", "cl_click")
    /\ UNCHANGED <<call, end, last_val, field, seen, default_timeout, cfgvars, run>>

\* lines 116-118: el.click()
CL_Click ==
    /\ pc = "cl_click"
    /\ \E r \in {"ok", "fault"} :
          /\ log' = Append(log, Cmd("click", el, r))
          /\ IF r = "ok"
             THEN Finish("none", <<>>, <<>>)
             ELSE pc' = "cl_script" /\ UNCHANGED <<exc, msg, ret>>
    /\ UNCHANGED <<call, now, end, el, last_val, field, seen, default_timeout, cfgvars, run>>

CL_Script_Swallows ==
    /\ pc = "cl_script"
    /\ \E r \in {"ok", "fault"} :
          /\ log' = Append(log, Cmd("script_click", el, r))
          /\ Finish("none", <<>>, <<>>)
    /\ UNCHANGED <<call, now, end, el, last_val, field, seen, default_timeout, cfgvars, run>>

\* lines 118-120: the fallback, arguments[0].click() on el
CL_Script ==
    /\ pc = "cl_script"
    /\ \E r \in {"ok", "fault"} :
          /\ log' = Append(log, Cmd("script_click", el, r))
          /\ IF r = "ok"
             THEN Finish("none", <<>>, <<>>)
             ELSE Finish("WebDriverException", <<>>, <<>>)
    /\ UNCHANGED <<call, now, end, el, last_val, field, seen, default_timeout, cfgvars, run>>

----------------------------------------------------------------------------
(* BasePage.get_element_list *)

CallGetElementList(locator, timeout) ==
    /\ pc = "idle"
    /\ pc' = "get_element_list"
    /\ call' = [NoCall EXCEPT !.op = "get_element_list", !.locator = locator,
                              !.timeout = timeout]
    /\ UNCHANGED <<log, exc, msg, ret, now, end, el, last_val, field, seen,
                   default_timeout, cfgvars, run>>

\* lines 104-105: end = time.time() + t
GL_Start ==
    /\ pc = "get_element_list"
    /\ end' = now + Effective(call.timeout, default_timeout)
    /\ pc' = "gl_check"
    /\ UNCHANGED <<call, log, exc, msg, ret, now, el, last_val, field, seen,
                   default_timeout, cfgvars, run>>

GL_Check_Raises ==
    /\ pc = "gl_check"
    /\ IF now < end
       THEN pc' = "gl_poll" /\ UNCHANGED <<exc, msg, ret>>
       ELSE Finish("TimeoutException", <<>>, <<>>)
    /\ UNCHANGED <<call, log, now, end, el, last_val, field, seen, default_timeout, cfgvars, run>>

\* lines 106 and 111: while time.time() < end ... return []
GL_Check ==
    /\ pc = "gl_check"
    /\ IF now < end
       THEN pc' = "gl_poll" /\ UNCHANGED <<exc, msg, ret>>
       ELSE Finish("none", <<>>, <<>>)
    /\ UNCHANGED <<call, log, now, end, el, last_val, field, seen, default_timeout, cfgvars, run>>

\* What one find_elements can return: the elements matching at that moment.
ElemLists == {<<>>} \cup {<<e>> : e \in Elements}
                 \cup {p \in Elements \X Elements : p[1] # p[2]}

\* lines 107-109: one poll, taking d units of time
GL_Poll ==
    /\ pc = "gl_poll"
    /\ \E d \in 0..1 :
          /\ now' = now + d
          /\ \/ \E elems \in ElemLists :
                   /\ log' = Append(log, Out("find_elements", call.locator, "ok", elems))
                   /\ IF elems # <<>>
                      THEN Finish("none", <<>>, elems)
                      ELSE pc' = "gl_sleep" /\ UNCHANGED <<exc, msg, ret>>
             \/ /\ log' = Append(log, Cmd("find_elements", call.locator, "fault"))
                /\ Finish("WebDriverException", <<>>, <<>>)
    /\ UNCHANGED <<call, end, el, last_val, field, seen, default_timeout, cfgvars, run>>

\* line 110: time.sleep(0.15), one polling interval
GL_Sleep ==
    /\ pc = "gl_sleep"
    /\ now' = now + 1
    /\ pc' = "gl_check"
    /\ UNCHANGED <<call, log, exc, msg, ret, end, el, last_val, field, seen,
                   default_timeout, cfgvars, run>>

----------------------------------------------------------------------------
(* BasePage.type_and_verify *)

CallTypeAndVerify(locator, text, timeout, clear_first, allow_partial, send_enter, accepts, rendered) ==
    /\ pc = "idle"
    /\ pc' = "type_and_verify"
    /\ call' = [NoCall EXCEPT !.op = "type_and_verify", !.locator = locator,
                              !.text = text, !.timeout = timeout,
                              !.clear_first = clear_first,
                              !.allow_partial = allow_partial,
                              !.send_enter = send_enter,
                              !.accepts = accepts, !.rendered = rendered]
    /\ seen' = NoneSeen
    /\ UNCHANGED <<log, exc, msg, ret, now, end, el, last_val, field,
                   default_timeout, cfgvars, run>>

\* line 163
TV_Find ==
    /\ pc = "type_and_verify"
    /\ Wait("wait_visible", "tv_click")
    /\ UNCHANGED <<call, end, last_val, field, seen, default_timeout, cfgvars, run>>

\* lines 164-167: el.click(), a fault is swallowed
TV_Click ==
    /\ pc = "tv_click"
    /\ \E r \in {"ok", "fault"} : log' = Append(log, Cmd("click", el, r))
    /\ pc' = IF call.clear_first THEN "tv_clear" ELSE "tv_text"
    /\ UNCHANGED <<call, exc, msg, ret, now, end, el, last_val, field, seen,
                   default_timeout, cfgvars, run>>

\* lines 169-172: el.clear()
TV_Clear ==
    /\ pc = "tv_clear"
    /\ \E r \in {"ok", "fault"} :
          /\ log' = Append(log, Cmd("clear", el, r))
          /\ pc' = IF r = "ok" THEN "tv_text" ELSE "tv_clear_keys"
    /\ UNCHANGED <<call, exc, msg, ret, now, end, el, last_val, field, seen,
                   default_timeout, cfgvars, run>>

\* lines 173-176: select all and delete, any fault is swallowed
TV_ClearKeys ==
    /\ pc = "tv_clear_keys"
    /\ \E r \in {"ok", "fault"} :
          log' = Append(log, Cmd("send_keys", <<"CONTROL", "a", "DELETE">>, r))
    /\ pc' = "tv_text"
    /\ UNCHANGED <<call, exc, msg, ret, now, end, el, last_val, field, seen,
                   default_timeout, cfgvars, run>>

\* line 178: el.send_keys(text)
TV_Text ==
    /\ pc = "tv_text"
    /\ \E r \in {"ok", "fault"} :
          /\ log' = Append(log, Cmd("send_keys", call.text, r))
          /\ IF r = "ok"
             THEN /\ pc' = IF call.send_enter THEN "tv_enter" ELSE "tv_tab"
                  /\ UNCHANGED <<exc, msg, ret>>
             ELSE Finish("WebDriverException", <<>>, <<>>)
    /\ UNCHANGED <<call, now, end, el, last_val, field, seen, default_timeout, cfgvars, run>>

\* lines 179-180: el.send_keys(Keys.ENTER)
TV_Enter ==
    /\ pc = "tv_enter"
    /\ \E r \in {"ok", "fault"} :
          /\ log' = Append(log, Cmd("send_keys", <<"ENTER">>, r))
          /\ IF r = "ok"
             THEN pc' = "tv_tab" /\ UNCHANGED <<exc, msg, ret>>
             ELSE Finish("WebDriverException", <<>>, <<>>)
    /\ UNCHANGED <<call, now, end, el, last_val, field, seen, default_timeout, cfgvars, run>>

\* lines 183-190: el.send_keys(Keys.TAB), any fault swallowed; then the deadline
\* and last_val = ""
TV_Tab ==
    /\ pc = "tv_tab"
    /\ \E r \in {"ok", "fault"} :
          log' = Append(log, Cmd("send_keys", <<"TAB">>, r))
    /\ end' = now + Effective(call.timeout, default_timeout)
    /\ last_val' = <<>>
    /\ pc' = "tv_check"
    /\ UNCHANGED <<call, exc, msg, ret, now, el, field, seen, default_timeout, cfgvars, run>>

\* line 191: while time.time() < end
TV_Check ==
    /\ pc = "tv_check"
    /\ pc' = IF now < end THEN "tv_poll" ELSE "tv_script"
    /\ UNCHANGED <<call, log, exc, msg, ret, now, end, el, last_val, field, seen,
                   default_timeout, cfgvars, run>>

\* lines 193 and 209: (el.get_attribute("value") or el.text or "").strip()
Observe(f, rendered) == Strip(OrElse(f, OrElse(Some(rendered), <<>>)))

\* lines 196 and 210
Matches(val, text, allow_partial) ==
    val = text \/ (allow_partial /\ Contains(val, text))

\* What the value attribute of the field can be when it is read.
FieldVals ==
    {None, Some(<<>>), Some(<<"a">>), Some(<<" ", "a">>), Some(<<"x", "a">>)}

PollFault_KeepsValue(val) == val

\* lines 194-195: a read that raises during polling
PollFault(val) == <<>>

\* lines 192-198: one poll of the field, which shows whatever value f the page
\* gives it at that moment
TV_Poll ==
    /\ pc = "tv_poll"
    /\ \E f \in FieldVals :
          /\ \/ LET v == Observe(f, call.rendered) IN
                /\ log' = Append(log, Cmd("get_attribute", el, "ok"))
                /\ last_val' = v
                /\ seen' = [seen EXCEPT !.poll = Value(v), !.last = Value(v)]
             \/ /\ log' = Append(log, Cmd("get_attribute", el, "fault"))
                /\ last_val' = PollFault(last_val)
                /\ seen' = [seen EXCEPT !.poll = FaultRead]
    /\ IF Matches(last_val', call.text, call.allow_partial)
       THEN Finish("none", <<>>, last_val')
       ELSE pc' = "tv_sleep" /\ UNCHANGED <<exc, msg, ret>>
    /\ UNCHANGED <<call, now, end, el, field, default_timeout, cfgvars, run>>

\* line 198: time.sleep(0.12), one polling interval
TV_Sleep ==
    /\ pc = "tv_sleep"
    /\ now' = now + 1
    /\ pc' = "tv_check"
    /\ UNCHANGED <<call, log, exc, msg, ret, end, el, last_val, field, seen,
                   default_timeout, cfgvars, run>>

\* lines 201-207 and 212-213: arguments[0].value = arguments[1] and the two
\* events; a field that accepts the assignment then holds the text
TV_Script ==
    /\ pc = "tv_script"
    /\ \/ /\ log' = Append(log, Cmd("script_set_value", call.text, "ok"))
          /\ seen' = [seen EXCEPT !.script = "ok"]
          /\ \E f \in FieldVals :
                field' = IF call.accepts THEN Some(call.text) ELSE f
          /\ pc' = "tv_script_read"
          /\ UNCHANGED <<exc, msg, ret>>
       \/ /\ log' = Append(log, Cmd("script_set_value", call.text, "fault"))
          /\ seen' = [seen EXCEPT !.script = "fault"]
          /\ Finish("none", <<>>, last_val)
          /\ UNCHANGED field
    /\ UNCHANGED <<call, now, end, el, last_val, default_timeout, cfgvars, run>>

\* lines 212-216: a read that raises in the fallback
ScriptReadFault(val) == val

\* lines 208-216: the re-check after the settle delay; both branches return
\* last_val
TV_ScriptRead ==
    /\ pc = "tv_script_read"
    /\ \/ LET v == Observe(field, call.rendered) IN
          /\ log' = Append(log, Cmd("get_attribute", el, "ok"))
          /\ last_val' = v
          /\ seen' = [seen EXCEPT !.js = Value(v), !.last = Value(v)]
       \/ /\ log' = Append(log, Cmd("get_attribute", el, "fault"))
          /\ last_val' = ScriptReadFault(last_val)
          /\ seen' = [seen EXCEPT !.js = FaultRead]
    /\ Finish("none", <<>>, last_val')
    /\ UNCHANGED <<call, now, end, el, field, default_timeout, cfgvars, run>>

----------------------------------------------------------------------------
(* Interaction: the calls explored *)

Texts    == {<<>>, <<"a">>, <<" ", "a">>}
Rendered == {<<>>, <<"r">>}

ActInit ==
    /\ PageInit
    /\ env = EmptyEnv
    /\ fileExists = FALSE
    /\ fileContent = EmptyFile
    /\ config = None
    /\ reads = 0
    /\ altFile = None
    /\ run = NoRun

ActNext ==
    \/ \E l \in Locators, t \in Timeouts : CallClick(l, t)
    \/ CL_Find
    \/ CL_Click
    \/ CL_Script
    \/ \E l \in Locators, t \in Timeouts : CallGetElementList(l, t)
    \/ GL_Start
    \/ GL_Check
    \/ GL_Poll
    \/ GL_Sleep
    \/ \E l \in Locators, x \in Texts, t \in {None, Some(0)},
          c \in BOOLEAN, p \in BOOLEAN, a \in BOOLEAN, r \in Rendered :
          CallTypeAndVerify(l, x, t, c, p, ~c, a, r)
    \/ TV_Find
    \/ TV_Click
    \/ TV_Clear
    \/ TV_ClearKeys
    \/ TV_Text
    \/ TV_Enter
    \/ TV_Tab
    \/ TV_Check
    \/ TV_Poll
    \/ TV_Sleep
    \/ TV_Script
    \/ TV_ScriptRead
    \/ Return

SpecAct == ActInit /\ [][ActNext]_vars

----------------------------------------------------------------------------
(* Interaction: properties *)

\* C6: after the element became clickable, click() sends one native click; if it
\* succeeds no script click follows; if it faults, exactly one script click on
\* the same element follows, whose success makes click() return normally and
\* whose fault propagates; nothing is sent twice.
C6_ClickFallsBackOnce ==
    /\ Count(log, "script_click") <= 1
    /\ (pc = "done" /\ call.op = "click" /\ Has(log, "wait_clickable", "ok")) =>
          /\ Count(log, "wait_clickable") = 1
          /\ Count(log, "click") = 1
          /\ log[2].cmd = "click"
          /\ log[2].arg = el
          /\ log[2].res = "ok" => (Len(log) = 2 /\ exc = "none")
          /\ log[2].res = "fault" =>
                /\ Len(log) = 3
                /\ log[3].cmd = "script_click"
                /\ log[3].arg = log[2].arg
                /\ log[3].res = "ok" => exc = "none"
                /\ log[3].res = "fault" => exc = "WebDriverException"

C6_Witness ==
    /\ pc = "done"
    /\ call.op = "click"
    /\ Has(log, "click", "fault")
    /\ Has(log, "script_click", "ok")
    /\ exc = "none"

\* C7: get_element_list polls only before the deadline; it never ends with a
\* timeout error; unless the driver itself faults it returns normally, the
\* empty sequence exactly when every poll (possibly none, as with timeout 0)
\* came back empty, and otherwise the elements of its last poll.
C7_EmptyListOnTimeout ==
    /\ pc = "gl_poll" => now < end
    /\ (pc = "done" /\ call.op = "get_element_list") =>
          /\ exc \in {"none", "WebDriverException"}
          /\ exc = "none" <=> ~Has(log, "find_elements", "fault")
          /\ exc = "none" =>
                /\ ret = <<>> <=> \A i \in 1..Len(log) : log[i].out = <<>>
                /\ ret # <<>> => ret = log[Len(log)].out
                /\ \A i \in 1..(Len(log) - 1) : log[i].out = <<>>
          /\ Effective(call.timeout, default_timeout) = 0 => (log = <<>> /\ exc = "none")

C7_Witness ==
    /\ pc = "done"
    /\ call.op = "get_element_list"
    /\ Len(log) >= 2
    /\ exc = "none"
    /\ ret = <<>>

\* The text keystrokes (and Enter, when asked for) were sent: the call has
\* reached the Tab key.
TextSent == \E i \in 1..Len(log) : log[i].cmd = "send_keys" /\ log[i].arg = <<"TAB">>

\* The value of the last read that returned one, "" when none did.
LastObserved == IF seen.last.kind = "value" THEN seen.last.v ELSE <<>>

\* C8, first half: with allow_partial=False and a field that accepts the
\* scripted assignment of the text (the script and the read after it succeed,
\* unless polling already matched), the value returned equals the text.
C8_ExactWhenFieldAccepts ==
    ( /\ pc = "done"
      /\ call.op = "type_and_verify"
      /\ TextSent
      /\ ~call.allow_partial
      /\ call.accepts
      /\ seen.script = "none" \/ (seen.script = "ok" /\ seen.js.kind = "value") ) =>
          (exc = "none" /\ ret = call.text)

\* C8, second half: with allow_partial=True the call returns at the first read
\* whose value contains the text, with that value.
C8_PartialReturnsAtFirstContainment ==
    ( /\ call.op = "type_and_verify"
      /\ call.allow_partial
      /\ seen.last.kind = "value"
      /\ Contains(seen.last.v, call.text) ) =>
          (pc = "done" /\ exc = "none" /\ ret = seen.last.v)

\* C8: type_and_verify with allow_partial=False returns the input text whenever
\* the field accepts its scripted assignment, and with allow_partial=True
\* returns as soon as an observed value contains the text.
C8_TypeAndVerifyReturnsText ==
    C8_ExactWhenFieldAccepts /\ C8_PartialReturnsAtFirstContainment

----------------------------------------------------------------------------
(* ReadConfig: the lookups explored *)

\* One lookup: the arguments, the result, and the cache it leaves.
Lookup(op, section, key, fallback, env_var, r) ==
    /\ pc = "idle"
    /\ call' = [NoCall EXCEPT !.op = op, !.section = section, !.key = key,
                              !.fallback = fallback, !.env_var = env_var]
    /\ config' = r.config
    /\ reads' = r.reads
    /\ Finish(r.exc, <<>>, r.val)
    /\ UNCHANGED <<log, now, end, el, last_val, field, seen, default_timeout,
                   env, fileExists, fileContent, altFile, run>>

CfgGet(section, key, fallback, env_var) ==
    Lookup("get", section, key, fallback, env_var,
           get(env, config, fileExists, fileContent, reads, section, key, fallback, env_var))

CfgGetInt(section, key, fallback, env_var) ==
    Lookup("get_int", section, key, fallback, env_var,
           get_int(env, config, fileExists, fileContent, reads, section, key, fallback,
                   env_var))

CfgGetBool(section, key, fallback, env_var) ==
    Lookup("get_bool", section, key, fallback, env_var,
           get_bool(env, config, fileExists, fileContent, reads, section, key, fallback,
                    env_var))

CfgGetUserLoginUrl ==
    Lookup("get_user_login_url", "common info", "user_login_url", None, "ADMIN_LOGIN_URL",
           get_user_login_url(env, config, fileExists, fileContent, reads))

CfgGetUserEmail ==
    Lookup("get_user_email", "common info", "user_email", None, "ADMIN_EMAIL",
           get_user_email(env, config, fileExists, fileContent, reads))

CfgGetUserPassword ==
    Lookup("get_user_password", "common info", "user_password", None, "ADMIN_PASSWORD",
           get_user_password(env, config, fileExists, fileContent, reads))

CfgGetSearchItemName ==
    Lookup("get_search_item_name", "common info", "search_item", None, NoEnvVar,
           get_search_item_name(env, config, fileExists, fileContent, reads))

CfgGetEmpInitialName ==
    Lookup("get_emp_initial_name", "common info", "pim_emp_name", None, "ADMIN_PASSWORD",
           get_emp_initial_name(env, config, fileExists, fileContent, reads))

CfgReload ==
    /\ pc = "idle"
    /\ reads < MaxReads
    /\ LET r == reload(config, fileExists, fileContent, reads) IN
       /\ call' = [NoCall EXCEPT !.op = "reload"]
       /\ config' = r.config
       /\ reads' = r.reads
       /\ Finish(r.exc, <<>>, None)
    /\ UNCHANGED <<log, now, end, el, last_val, field, seen, default_timeout,
                   env, fileExists, fileContent, altFile, run>>

\* The end of a lookup: the cache stays.
CfgReturn ==
    /\ pc = "done"
    /\ pc' = "idle"
    /\ call' = NoCall
    /\ exc' = "none"
    /\ msg' = <<>>
    /\ ret' = <<>>
    /\ UNCHANGED <<log, now, end, el, last_val, field, seen, default_timeout, cfgvars, run>>

CfgKeys      == {"user_email", "pim_emp_name"}
CfgEnvNames  == {NoEnvVar, "ADMIN_EMAIL"}
CfgFallbacks == {None, Some(<<"7">>)}

CfgInit ==
    /\ PageInit
    /\ default_timeout = 1
    /\ \E a \in {None, Some(<<"1">>)},
          b \in {None, Some(<<"1">>), Some(<<"n", "o">>), Some(<<>>)},
          c \in {None, Some(<<"1">>)} :
          env = [EmptyEnv EXCEPT !["ADMIN_LOGIN_URL"] = a, !["ADMIN_EMAIL"] = b,
                                 !["ADMIN_PASSWORD"] = c]
    /\ fileExists \in BOOLEAN
    /\ IF fileExists
       THEN /\ fileContent \in [Keys -> {None, Some(<<"0">>), Some(<<"x">>)}]
            /\ \A k \in Keys \ {"user_email"} : fileContent[k] # Some(<<"x">>)
       ELSE fileContent = EmptyFile
    /\ config = None
    /\ reads = 0
    /\ altFile = None
    /\ run = NoRun

CfgNext ==
    \/ \E s \in Sections, k \in CfgKeys, f \in CfgFallbacks, v \in CfgEnvNames :
          \/ CfgGet(s, k, f, v)
          \/ CfgGetInt(s, k, IF f.some THEN Some(7) ELSE None, v)
          \/ CfgGetBool(s, k, IF f.some THEN Some(TRUE) ELSE None, v)
    \/ CfgGetUserLoginUrl
    \/ CfgGetUserEmail
    \/ CfgGetUserPassword
    \/ CfgGetSearchItemName
    \/ CfgGetEmpInitialName
    \/ CfgReload
    \/ CfgReturn

SpecCfg == CfgInit /\ [][CfgNext]_vars

----------------------------------------------------------------------------
(* ReadConfig: properties *)

\* What a getter returns when it answers from the raw string v.
FromRaw(op, v) ==
    CASE op = "get"      -> [exc |-> "none", val |-> Some(v)]
      [] op = "get_int"  -> IF py_int(v).ok
                            THEN [exc |-> "none", val |-> Some(py_int(v).v)]
                            ELSE [exc |-> "ValueError", val |-> None]
      [] op = "get_bool" -> IF Lower(v) \in TrueWords
                            THEN [exc |-> "none", val |-> Some(TRUE)]
                            ELSE IF Lower(v) \in FalseWords
                            THEN [exc |-> "none", val |-> Some(FALSE)]
                            ELSE [exc |-> "ValueError", val |-> None]
      [] OTHER           -> [exc |-> "none", val |-> Some(v)]

\* C10: a completed lookup of a getter called with an environment-variable
\* override, when that variable is set and the file also holds the key, gives
\* the result derived from the variable's value, not from the file's.
C10_EnvOverridesFile ==
    ( /\ pc = "done"
      /\ call.op \in {"get", "get_int", "get_bool", "get_user_login_url",
                      "get_user_email", "get_user_password", "get_emp_initial_name"}
      /\ call.env_var # NoEnvVar
      /\ getenv(env, call.env_var).some
      /\ fileExists
      /\ call.section = "common info"
      /\ fileContent[call.key].some ) =>
          LET expected == FromRaw(call.op, getenv(env, call.env_var).v) IN
          /\ exc = expected.exc
          /\ exc = "none" => ret = expected.val

\* The five convenience wrappers, and what each returns in environment e with
\* the cache and the file of the current state.
WrapperOps ==
    {"get_user_login_url", "get_user_email", "get_user_password",
     "get_search_item_name", "get_emp_initial_name"}

WrapperResult(op, e) ==
    CASE op = "get_user_login_url"   ->
             get_user_login_url(e, config, fileExists, fileContent, reads)
      [] op = "get_user_email"       ->
             get_user_email(e, config, fileExists, fileContent, reads)
      [] op = "get_user_password"    ->
             get_user_password(e, config, fileExists, fileContent, reads)
      [] op = "get_search_item_name" ->
             get_search_item_name(e, config, fileExists, fileContent, reads)
      [] op = "get_emp_initial_name" ->
             get_emp_initial_name(e, config, fileExists, fileContent, reads)

\* The value of an override variable set by the operator of the run.
OverrideValue == <<"z">>

\* C11: each of the five wrappers has an environment variable of its own:
\* setting that variable makes the wrapper return the variable's value and
\* leaves what every other wrapper returns unchanged.
C11_DedicatedOverrides ==
    (pc = "idle" /\ fileExists) =>
        \A op \in WrapperOps :
            \E v \in EnvVars :
                LET e2 == [env EXCEPT ![v] = Some(OverrideValue)] IN
                /\ WrapperResult(op, e2).val = Some(OverrideValue)
                /\ \A other \in WrapperOps \ {op} :
                       WrapperResult(other, e2).val = WrapperResult(other, env).val

\* The part of C11 that the three wrappers with a variable of their own
\* satisfy: the variable takes precedence over the file.
C11_OverrideTakesPrecedence ==
    (pc = "idle" /\ fileExists) =>
        /\ WrapperResult("get_user_login_url",
                         [env EXCEPT !["ADMIN_LOGIN_URL"] = Some(OverrideValue)]).val
               = Some(OverrideValue)
        /\ WrapperResult("get_user_email",
                         [env EXCEPT !["ADMIN_EMAIL"] = Some(OverrideValue)]).val
               = Some(OverrideValue)
        /\ WrapperResult("get_user_password",
                         [env EXCEPT !["ADMIN_PASSWORD"] = Some(OverrideValue)]).val
               = Some(OverrideValue)

----------------------------------------------------------------------------
(* ReadConfig: the cache, with a run that rewrites or removes the file *)

\* reload(path) with an explicit path: the file read is the one at that path.
CfgReloadPath ==
    /\ pc = "idle"
    /\ reads < MaxReads
    /\ LET r == reload(config, altFile.some, altFile.v, reads) IN
       /\ call' = [NoCall EXCEPT !.op = "reload_path"]
       /\ config' = r.config
       /\ reads' = r.reads
       /\ Finish(r.exc, <<>>, None)
    /\ UNCHANGED <<log, now, end, el, last_val, field, seen, default_timeout,
                   env, fileExists, fileContent, altFile, run>>

\* The run (a test that modifies the file, as reload's docstring has it)
\* removes configuration/config.ini between two calls.
FileRemove ==
    /\ pc = "idle"
    /\ fileExists
    /\ fileExists' = FALSE
    /\ fileContent' = EmptyFile
    /\ UNCHANGED <<pagevars, env, config, reads, altFile, run>>

\* The run writes configuration/config.ini between two calls.
FileWrite(content) ==
    /\ pc = "idle"
    /\ ~fileExists \/ fileContent # content
    /\ fileExists' = TRUE
    /\ fileContent' = content
    /\ UNCHANGED <<pagevars, env, config, reads, altFile, run>>

CacheContents ==
    {[EmptyFile EXCEPT !["user_email"] = Some(<<"0">>)],
     [EmptyFile EXCEPT !["user_email"] = Some(<<"1">>), !["search_item"] = Some(<<"s">>)]}

AltContent == [EmptyFile EXCEPT !["user_email"] = Some(<<"n", "o">>)]

CacheInit ==
    /\ PageInit
    /\ default_timeout = 1
    /\ \E b \in {None, Some(<<"1">>)} : env = [EmptyEnv EXCEPT !["ADMIN_EMAIL"] = b]
    /\ fileExists \in BOOLEAN
    /\ IF fileExists THEN fileContent \in CacheContents ELSE fileContent = EmptyFile
    /\ altFile \in {None, Some(AltContent)}
    /\ run = NoRun
    /\ config = None
    /\ reads = 0

CacheNext ==
    \/ \E f \in CfgFallbacks, v \in CfgEnvNames :
          \/ CfgGet("common info", "user_email", f, v)
          \/ CfgGetInt("common info", "user_email", IF f.some THEN Some(7) ELSE None, v)
          \/ CfgGetBool("common info", "user_email", IF f.some THEN Some(TRUE) ELSE None, v)
    \/ CfgGetUserEmail
    \/ CfgGetSearchItemName
    \/ CfgReload
    \/ CfgReloadPath
    \/ FileRemove
    \/ \E c \in CacheContents : FileWrite(c)
    \/ CfgReturn

SpecCache == CacheInit /\ [][CacheNext]_vars

----------------------------------------------------------------------------
(* ReadConfig: properties of the cache *)

LookupOps ==
    {"get", "get_int", "get_bool", "get_user_login_url", "get_user_email",
     "get_user_password", "get_search_item_name", "get_emp_initial_name"}

\* The step of one lookup, of one reload.
LookupStep == pc = "idle" /\ pc' = "done" /\ call'.op \in LookupOps
ReloadStep == pc = "idle" /\ pc' = "done" /\ call'.op \in {"reload", "reload_path"}

\* The lookup c is answered by its environment variable.
EnvAnswers(c) == c.env_var # NoEnvVar /\ getenv(env, c.env_var).some

\* The file a reload reads: the one at its path.
ReloadFile(op) ==
    IF op = "reload_path" THEN altFile
    ELSE IF fileExists THEN Some(fileContent) ELSE None

\* C12: the file is read lazily and at most once.  A step reads at most one
\* file; a lookup reads only when nothing is cached and its environment
\* variable does not answer it; once settings are cached every lookup leaves
\* the cache and the number of reads alone and get() answers from the cached
\* settings, whatever the file holds by then; a reload whose file exists reads
\* exactly once and caches that file; nothing else reads.
C12_LazyLoadedOnce ==
    [][ /\ reads' \in {reads, reads + 1}
        /\ (LookupStep /\ reads' # reads) => (~config.some /\ ~EnvAnswers(call'))
        /\ (LookupStep /\ config.some) =>
               /\ reads' = reads
               /\ config' = config
               /\ (call'.op = "get" /\ ~EnvAnswers(call')) =>
                      /\ exc' = "none"
                      /\ ret' = parser_get(config.v, call'.section, call'.key,
                                           call'.fallback)
        /\ (ReloadStep /\ ReloadFile(call'.op).some) =>
               /\ reads' = reads + 1
               /\ config' = ReloadFile(call'.op)
               /\ exc' = "none"
        /\ (~LookupStep /\ ~ReloadStep) => (reads' = reads /\ config' = config)
      ]_vars

\* A get() answered from settings cached by the second read (a load, then a
\* reload), after the file was rewritten.
C12_Witness ==
    /\ pc = "done"
    /\ call.op = "get"
    /\ ~EnvAnswers(call)
    /\ reads = 2
    /\ config.some
    /\ fileExists
    /\ config.v["user_email"] # fileContent["user_email"]
    /\ ret = config.v["user_email"]

\* Nothing is cached although a file was read before: the last reload found
\* no file and discarded the settings.
AfterFailedReload == ~config.some /\ reads > 0

\* The file-backed part of C20: a reload that finds no file at its path raises
\* FileNotFoundError and leaves nothing cached; the next lookup that its
\* environment variable does not answer loads configuration/config.ini afresh
\* and answers from it, or raises FileNotFoundError when that file is absent.
C20_FileBackedLookupsLoadAfresh ==
    [][ /\ (ReloadStep /\ ~ReloadFile(call'.op).some) =>
               /\ exc' = "FileNotFoundError"
               /\ config' = None
               /\ reads' = reads
        /\ (LookupStep /\ AfterFailedReload /\ ~EnvAnswers(call')) =>
               IF fileExists
               THEN /\ config' = Some(fileContent)
                    /\ reads' = reads + 1
                    /\ call'.op = "get" =>
                           ret' = parser_get(fileContent, call'.section, call'.key,
                                             call'.fallback)
               ELSE /\ exc' = "FileNotFoundError"
                    /\ config' = None
                    /\ reads' = reads
      ]_vars

\* C20: after a reload that failed because its file is missing, nothing is
\* cached, file-backed lookups load the default file afresh (or fail again),
\* and every lookup called with a set environment variable keeps succeeding
\* without touching the file or the cache.
C20_FailedReloadLeavesNoCache ==
    [][ /\ (ReloadStep /\ ~ReloadFile(call'.op).some) =>
               (exc' = "FileNotFoundError" /\ config' = None)
        /\ (LookupStep /\ AfterFailedReload /\ ~EnvAnswers(call') /\ ~fileExists) =>
               (exc' = "FileNotFoundError" /\ config' = None)
        /\ (LookupStep /\ AfterFailedReload /\ ~EnvAnswers(call') /\ fileExists) =>
               (config' = Some(fileContent) /\ reads' = reads + 1)
        /\ (LookupStep /\ AfterFailedReload /\ EnvAnswers(call')) =>
               (exc' = "none" /\ config' = config /\ reads' = reads)
      ]_vars

----------------------------------------------------------------------------
(* BasePage.find, find_visible, find_clickable, is_visible *)

\* The expected condition each of the locate variants waits for.
Condition(op) ==
    CASE op = "find"           -> "wait_present"
      [] op = "find_visible"   -> "wait_visible"
      [] op = "find_clickable" -> "wait_clickable"
      [] op = "is_visible"     -> "wait_visible"

LocateOps == {"find", "find_visible", "find_clickable", "is_visible"}

CallLocate(op, locator, timeout) ==
    /\ pc = "idle"
    /\ pc' = "locate"
    /\ call' = [NoCall EXCEPT !.op = op, !.locator = locator, !.timeout = timeout]
    /\ UNCHANGED <<log, exc, msg, ret, now, end, el, last_val, field, seen,
                   default_timeout, cfgvars, run>>

\* lines 95, 98, 101, 242: return self._wait(EC...(locator), timeout)
LC_Wait ==
    /\ pc = "locate"
    /\ Wait(Condition(call.op), "lc_return")
    /\ UNCHANGED <<call, end, last_val, field, seen, default_timeout, cfgvars, run>>

LC_Return ==
    /\ pc = "lc_return"
    /\ Finish("none", <<>>, el)
    /\ UNCHANGED <<call, log, now, end, el, last_val, field, seen, default_timeout,
                   cfgvars, run>>

----------------------------------------------------------------------------
(* BasePage.clear *)

CallClear(locator, timeout) ==
    /\ pc = "idle"
    /\ pc' = "clear"
    /\ call' = [NoCall EXCEPT !.op = "clear", !.locator = locator, !.timeout = timeout]
    /\ UNCHANGED <<log, exc, msg, ret, now, end, el, last_val, field, seen,
                   default_timeout, cfgvars, run>>

\* line 123
CR_Find ==
    /\ pc = "clear"
    /\ Wait("wait_visible", "cr_clear")
    /\ UNCHANGED <<call, end, last_val, field, seen, default_timeout, cfgvars, run>>

\* lines 124-126: el.clear()
CR_Clear ==
    /\ pc = "cr_clear"
    /\ \E r \in {"ok", "fault"} :
          /\ log' = Append(log, Cmd("clear", el, r))
          /\ IF r = "ok"
             THEN Finish("none", <<>>, <<>>)
             ELSE pc' = "cr_clear_keys" /\ UNCHANGED <<exc, msg, ret>>
    /\ UNCHANGED <<call, now, end, el, last_val, field, seen, default_timeout, cfgvars, run>>

\* lines 127-130: select all and delete, any fault is swallowed
CR_ClearKeys ==
    /\ pc = "cr_clear_keys"
    /\ \E r \in {"ok", "fault"} :
          log' = Append(log, Cmd("send_keys", <<"CONTROL", "a", "DELETE">>, r))
    /\ Finish("none", <<>>, <<>>)
    /\ UNCHANGED <<call, now, end, el, last_val, field, seen, default_timeout, cfgvars, run>>

----------------------------------------------------------------------------
(* BasePage.type *)

CallType(locator, text, timeout, clear_first, send_enter) ==
    /\ pc = "idle"
    /\ pc' = "type"
    /\ call' = [NoCall EXCEPT !.op = "type", !.locator = locator, !.text = text,
                              !.timeout = timeout, !.clear_first = clear_first,
                              !.send_enter = send_enter]
    /\ UNCHANGED <<log, exc, msg, ret, now, end, el, last_val, field, seen,
                   default_timeout, cfgvars, run>>

\* line 135
TY_Find ==
    /\ pc = "type"
    /\ Wait("wait_visible", "ty_click")
    /\ UNCHANGED <<call, end, last_val, field, seen, default_timeout, cfgvars, run>>

\* lines 136-140: el.click(), a fault is swallowed
TY_Click ==
    /\ pc = "ty_click"
    /\ \E r \in {"ok", "fault"} : log' = Append(log, Cmd("click", el, r))
    /\ pc' = IF call.clear_first THEN "ty_clear" ELSE "ty_text"
    /\ UNCHANGED <<call, exc, msg, ret, now, end, el, last_val, field, seen,
                   default_timeout, cfgvars, run>>

TY_Clear_Raises ==
    /\ pc = "ty_clear"
    /\ \E r \in {"ok", "fault"} :
          /\ log' = Append(log, Cmd("clear", el, r))
          /\ IF r = "ok"
             THEN pc' = "ty_text" /\ UNCHANGED <<exc, msg, ret>>
             ELSE Finish("WebDriverException", <<>>, <<>>)
    /\ UNCHANGED <<call, now, end, el, last_val, field, seen, default_timeout, cfgvars, run>>

\* lines 141-143: el.clear()
TY_Clear ==
    /\ pc = "ty_clear"
    /\ \E r \in {"ok", "fault"} :
          /\ log' = Append(log, Cmd("clear", el, r))
          /\ pc' = IF r = "ok" THEN "ty_text" ELSE "ty_clear_keys"
    /\ UNCHANGED <<call, exc, msg, ret, now, end, el, last_val, field, seen,
                   default_timeout, cfgvars, run>>

\* lines 144-147: select all and delete, any fault is swallowed
TY_ClearKeys ==
    /\ pc = "ty_clear_keys"
    /\ \E r \in {"ok", "fault"} :
          log' = Append(log, Cmd("send_keys", <<"CONTROL", "a", "DELETE">>, r))
    /\ pc' = "ty_text"
    /\ UNCHANGED <<call, exc, msg, ret, now, end, el, last_val, field, seen,
                   default_timeout, cfgvars, run>>

\* line 148: el.send_keys(text)
TY_Text ==
    /\ pc = "ty_text"
    /\ \E r \in {"ok", "fault"} :
          /\ log' = Append(log, Cmd("send_keys", call.text, r))
          /\ IF r = "ok" /\ call.send_enter
             THEN pc' = "ty_enter" /\ UNCHANGED <<exc, msg, ret>>
             ELSE Finish(IF r = "ok" THEN "none" ELSE "WebDriverException", <<>>, <<>>)
    /\ UNCHANGED <<call, now, end, el, last_val, field, seen, default_timeout, cfgvars, run>>

\* lines 149-150: el.send_keys(Keys.ENTER)
TY_Enter ==
    /\ pc = "ty_enter"
    /\ \E r \in {"ok", "fault"} :
          /\ log' = Append(log, Cmd("send_keys", <<"ENTER">>, r))
          /\ Finish(IF r = "ok" THEN "none" ELSE "WebDriverException", <<>>, <<>>)
    /\ UNCHANGED <<call, now, end, el, last_val, field, seen, default_timeout, cfgvars, run>>

----------------------------------------------------------------------------
(* BasePage.get_text, element_value *)

CallRead(op, locator, timeout) ==
    /\ pc = "idle"
    /\ pc' = op
    /\ call' = [NoCall EXCEPT !.op = op, !.locator = locator, !.timeout = timeout]
    /\ UNCHANGED <<log, exc, msg, ret, now, end, el, last_val, field, seen,
                   default_timeout, cfgvars, run>>

\* line 219
GT_Find ==
    /\ pc = "get_text"
    /\ Wait("wait_visible", "gt_read")
    /\ UNCHANGED <<call, end, last_val, field, seen, default_timeout, cfgvars, run>>

\* What the page shows in an element, and what its value attribute holds.
ShownTexts  == {<<>>, <<" ", "r", " ">>}
ValueAttrs  == {None, Some(<<" ", "7">>), Some(<<"9">>)}

Dashboard   == <<"D", "a", "s", "h", "b", "o", "a", "r", "d">>
RecordFound == <<"(", "1", ")", " ", "R", "e", "c", "o", "r", "d", " ",
                 "F", "o", "u", "n", "d">>

\* el.text of the element a locator resolves to: the two headings the
\* scenarios wait for may be rendered as expected or otherwise.
Shown(locator) ==
    CASE locator = "_dashboard_txt"    -> {<<" ">> \o Dashboard, <<"D">>}
      [] locator = "_emp_record_found" -> {RecordFound, <<"(", "2", ")">>}
      [] OTHER                         -> ShownTexts

\* line 220: (el.text or "").strip()
GT_Read ==
    /\ pc = "gt_read"
    /\ \/ \E t \in Shown(call.locator) :
             /\ log' = Append(log, Cmd("text", el, "ok"))
             /\ Finish("none", <<>>, Strip(OrElse(Some(t), <<>>)))
       \/ /\ log' = Append(log, Cmd("text", el, "fault"))
          /\ Finish("WebDriverException", <<>>, <<>>)
    /\ UNCHANGED <<call, now, end, el, last_val, field, seen, default_timeout, cfgvars, run>>

\* element_value that reads through the handle a previous call left behind
\* instead of resolving its locator.
EV_Find_Cached ==
    /\ pc = "element_value"
    /\ pc' = "ev_read"
    /\ UNCHANGED <<call, log, exc, msg, ret, now, end, el, last_val, field, seen,
                   default_timeout, cfgvars, run>>

\* line 238
EV_Find ==
    /\ pc = "element_value"
    /\ Wait("wait_visible", "ev_read")
    /\ UNCHANGED <<call, end, last_val, field, seen, default_timeout, cfgvars, run>>

\* line 239: (el.get_attribute("value") or "").strip()
EV_Read ==
    /\ pc = "ev_read"
    /\ \/ \E v \in ValueAttrs :
             /\ log' = Append(log, Cmd("get_attribute", el, "ok"))
             /\ Finish("none", <<>>, Strip(OrElse(v, <<>>)))
       \/ /\ log' = Append(log, Cmd("get_attribute", el, "fault"))
          /\ Finish("WebDriverException", <<>>, <<>>)
    /\ UNCHANGED <<call, now, end, el, last_val, field, seen, default_timeout, cfgvars, run>>

----------------------------------------------------------------------------
(* The primitives of the interaction layer: the calls explored *)

PrimTexts == {<<"a">>, <<"E", "N">>}

PrimNext ==
    \/ \E o \in LocateOps, l \in Locators, t \in Timeouts : CallLocate(o, l, t)
    \/ LC_Wait
    \/ LC_Return
    \/ \E l \in Locators, t \in Timeouts : CallClear(l, t)
    \/ CR_Find
    \/ CR_Clear
    \/ CR_ClearKeys
    \/ \E l \in Locators, x \in PrimTexts, t \in Timeouts, c \in BOOLEAN, e \in BOOLEAN :
          CallType(l, x, t, c, e)
    \/ TY_Find
    \/ TY_Click
    \/ TY_Clear
    \/ TY_ClearKeys
    \/ TY_Text
    \/ TY_Enter
    \/ \E o \in {"get_text", "element_value"}, l \in Locators, t \in Timeouts :
          CallRead(o, l, t)
    \/ GT_Find
    \/ GT_Read
    \/ EV_Find
    \/ EV_Read
    \/ \E l \in Locators, t \in Timeouts : CallClick(l, t)
    \/ CL_Find
    \/ CL_Click
    \/ CL_Script
    \/ \E l \in Locators, c \in BOOLEAN, a \in BOOLEAN :
          CallTypeAndVerify(l, <<"a">>, Some(0), c, FALSE, ~c, a, <<>>)
    \/ TV_Find
    \/ TV_Click
    \/ TV_Clear
    \/ TV_ClearKeys
    \/ TV_Text
    \/ TV_Enter
    \/ TV_Tab
    \/ TV_Check
    \/ TV_Script
    \/ TV_ScriptRead
    \/ Return

SpecPrim == ActInit /\ [][PrimNext]_vars

----------------------------------------------------------------------------
(* The primitives of the interaction layer: properties *)

WaitCmds == {"wait_present", "wait_visible", "wait_clickable"}

\* The commands whose logged argument is the element handle they act on.
HandleCmds == {"click", "script_click", "clear", "get_attribute", "text"}

\* C14: a call of the interaction layer that ends because a wait timed out
\* captured a screenshot after the timeout and, the capture not faulting,
\* fails with an error that carries the screenshot's path.
C14_TimeoutsCarryScreenshot ==
    (pc = "done" /\ \E i \in 1..Len(log) : log[i].cmd \in WaitCmds /\ log[i].res = "timeout") =>
        /\ exc # "none"
        /\ \E j \in 1..Len(log) :
               /\ log[j].cmd = "screenshot"
               /\ log[j].res = "ok" => msg = log[j].arg

\* What does hold for the primitives built on _wait: the timeout ends the
\* call at once with a bare TimeoutException, no screenshot, no path.
C14_TimeoutPropagatesBare ==
    (pc = "done" /\ \E i \in 1..Len(log) : log[i].cmd \in WaitCmds /\ log[i].res = "timeout") =>
        /\ exc = "TimeoutException"
        /\ Len(log) = 1
        /\ msg = <<>>

\* C18: no handle survives a call, and inside a call every command sent to an
\* element comes after a successful wait that resolved the call's locator in
\* that same call, and goes to the handle that wait returned.
C18_HandlesResolvedInCall ==
    /\ pc = "idle" => (el = NoElement /\ log = <<>>)
    /\ \A i \in 1..Len(log) :
          log[i].cmd \notin WaitCmds =>
              /\ i > 1
              /\ log[1].cmd \in WaitCmds
              /\ log[1].res = "ok"
              /\ log[1].arg = call.locator
              /\ el \in Elements
              /\ log[i].cmd \in HandleCmds => log[i].arg = el

\* element_value has read the value through the handle it resolved itself.
C18_Witness ==
    /\ pc = "done"
    /\ call.op = "element_value"
    /\ Len(log) = 2
    /\ log[1] = Cmd("wait_visible", call.locator, "ok")
    /\ log[2] = Cmd("get_attribute", el, "ok")
    /\ ret = <<"7">>

\* The position in the log of type()'s send_keys(text).
TextAt == IF ~call.clear_first THEN 3
          ELSE IF log[3].res = "ok" THEN 4 ELSE 5

\* C19: once the element was found visible, type() has sent, in this order:
\* one click; when clear_first is set one clear and, if that clear faulted, one
\* select-all-and-delete; then the text, exactly once, whatever faulted before;
\* then Enter exactly when send_enter is set (and the text went through).  It
\* never reads the field, and only a fault of the text or of Enter fails it.
C19_TypeSendsTextOnce ==
    (pc = "done" /\ call.op = "type" /\ Has(log, "wait_visible", "ok")) =>
        /\ log[2].cmd = "click"
        /\ Len(log) >= TextAt
        /\ call.clear_first =>
               /\ log[3].cmd = "clear"
               /\ log[3].res = "fault" =>
                      log[4] \in {Cmd("send_keys", <<"CONTROL", "a", "DELETE">>, r) :
                                    r \in {"ok", "fault"}}
        /\ log[TextAt].cmd = "send_keys"
        /\ log[TextAt].arg = call.text
        /\ \A i \in 1..Len(log) :
               (log[i].cmd = "send_keys" /\ log[i].arg = call.text) => i = TextAt
        /\ IF call.send_enter /\ log[TextAt].res = "ok"
           THEN /\ Len(log) = TextAt + 1
                /\ log[TextAt + 1].cmd = "send_keys"
                /\ log[TextAt + 1].arg = <<"ENTER">>
           ELSE Len(log) = TextAt
        /\ \A i \in 1..Len(log) : log[i].cmd \notin {"get_attribute", "text"}
        /\ exc = IF log[Len(log)].res = "ok" THEN "none" ELSE "WebDriverException"
        /\ ret = <<>>

\* The click, the clear and the select-all-and-delete all faulted, and the
\* text and Enter were sent all the same.
C19_Witness ==
    /\ pc = "done"
    /\ call.op = "type"
    /\ call.clear_first
    /\ call.send_enter
    /\ Len(log) = 6
    /\ log[2].res = "fault"
    /\ log[3].res = "fault"
    /\ log[4].res = "fault"
    /\ log[5] = Cmd("send_keys", call.text, "ok")
    /\ log[6] = Cmd("send_keys", <<"ENTER">>, "ok")
    /\ exc = "none"

----------------------------------------------------------------------------
(* testcases: the page-object calls of the login fixture and of the tests *)

\* One page-object call: the primitive it is, its locator, the text or URL it
\* is given, its timeout, and whether the caller swallows its exception.
Step(op, locator, text) ==
    [op |-> op, locator |-> locator, text |-> text, timeout |-> None, swallow |-> FALSE]

\* conftest.py lines 131-142 (and test_user_login.py lines 23-32): open the
\* login URL, type the user name and the password, click Login, read the
\* dashboard heading.
LoginScript(url, username, password) ==
    << Step("open_url", NoLocator, url),
       Step("type", "txtbox_username_xpath", username),
       Step("type", "password_xpath", password),
       Step("click", "btn_login_xpath", <<>>),
       Step("get_text", "_dashboard_txt", <<>>) >>

\* random_data.generate_employee_with_credentials: the generated record
GenId == <<"9">>
GenText == <<"g">>

search_id_Generated(generated, final_empid) == generated

\* test_add_employee.py line 41: the id the search is given is final_empid
search_id(generated, final_empid) == final_empid

\* test_add_employee.py lines 12-42
AddEmployeeScript(final_empid) ==
    << Step("click", "pim_btn", <<>>),
       Step("click", "_add_new_emp", <<>>),
       Step("type", "_first_name", GenText),
       Step("type", "_middle_name", GenText),
       Step("type", "_last_name", GenText),
       Step("type", "_empid", GenId),
       Step("element_value", "_empid", <<>>),
       Step("click", "_create_login_details_btn", <<>>),
       Step("type", "_username_txt", GenText),
       Step("type", "_password_txt", GenText),
       Step("type", "_cnf_password_txt", GenText),
       Step("click", "_save_details", <<>>),
       [Step("get_text", "_toast", <<>>) EXCEPT !.timeout = Some(6), !.swallow = TRUE],
       Step("click", "_emp_list_menu", <<>>),
       Step("type", "_emp_info_empid", search_id(GenId, final_empid)),
       Step("click", "_emp_info_search_button", <<>>),
       Step("get_text", "_emp_record_found", <<>>) >>

\* test_user_logout.py lines 14-19
LogoutScript ==
    << Step("click", "profile_drpdown", <<>>),
       Step("click", "logout_btn", <<>>),
       Step("find_visible", "company_logo", <<>>) >>

\* test_delete_record_from_pim.py lines 11-15
DeleteScript ==
    << Step("click", "pim_btn", <<>>),
       Step("click", "_delete_employee_record", <<>>) >>

\* The test items: their names and whether they request login_fixture.
Items ==
    { [name |-> "test_userLogin", login |-> FALSE],
      [name |-> "test_add_employee", login |-> TRUE],
      [name |-> "test_user_logout", login |-> TRUE],
      [name |-> "test_delete_record_from_PIM", login |-> TRUE] }

\* The calls of a test body, given what the run has read so far.
BodyScript(r) ==
    CASE r.item.name = "test_userLogin"    -> LoginScript(r.url, r.username, r.password)
      [] r.item.name = "test_add_employee" -> AddEmployeeScript(r.final_empid)
      [] r.item.name = "test_user_logout"  -> LogoutScript
      [] OTHER                             -> DeleteScript

\* The script in progress: the login fixture's during setup, the body's after.
Script(r) ==
    IF r.phase = "login" THEN LoginScript(r.url, r.username, r.password)
    ELSE BodyScript(r)

----------------------------------------------------------------------------
(* testcases/conftest.py: the run of one test item under pytest *)

NewRun(item) ==
    [phase |-> IF item.login THEN "create" ELSE "class_body",
     item |-> item, step |-> 1,
     session |-> "none",      \* the browser process: "none", "open" or "quit"
     quits |-> 0,             \* calls of driver.quit()
     yielded |-> {},          \* the fixtures that reached their yield
     setup |-> "none",        \* outcome of the setup phase
     body |-> "none",         \* outcome of the call phase
     shots |-> <<>>,          \* screenshots attempted by the login fixture and the hook
     trace |-> <<>>,          \* the page-object calls completed by the script in progress
     url |-> <<>>, username |-> <<>>, password |-> <<>>,
     final_empid |-> <<>>, login_text |-> <<>>]

\* ReadConfig.get_user_login_url(), get_user_email(), get_user_password() in a
\* row (conftest.py lines 123-125, test_user_login.py lines 13-15)
ReadSettings(e, cfg, exists, content, n) ==
    LET a == get_user_login_url(e, cfg, exists, content, n)
        b == get_user_email(e, a.config, exists, content, a.reads)
        c == get_user_password(e, b.config, exists, content, b.reads)
        last == IF a.exc # "none" THEN a ELSE IF b.exc # "none" THEN b ELSE c
    IN  [exc |-> last.exc, config |-> last.config, reads |-> last.reads,
         url |-> a.val.v, username |-> b.val.v, password |-> c.val.v]

\* The page variables when no primitive is in progress.
ResetPage ==
    /\ pc' = "idle"
    /\ call' = NoCall
    /\ log' = <<>>
    /\ exc' = "none"
    /\ msg' = <<>>
    /\ ret' = <<>>
    /\ now' = 0
    /\ end' = 0
    /\ el' = NoElement
    /\ last_val' = <<>>
    /\ field' = None
    /\ seen' = NoneSeen

\* test_user_login.py lines 13-15: the class body reads the settings when the
\* module is imported; a failure is a collection error and nothing runs.
ClassBody ==
    /\ run.phase = "class_body"
    /\ LET r == ReadSettings(env, config, fileExists, fileContent, reads) IN
       /\ config' = r.config
       /\ reads' = r.reads
       /\ run' = IF r.exc = "none"
                 THEN [run EXCEPT !.phase = "create", !.url = r.url,
                                  !.username = r.username, !.password = r.password]
                 ELSE [run EXCEPT !.phase = "end", !.setup = r.exc]
    /\ UNCHANGED <<pagevars, env, fileExists, fileContent, altFile>>

\* driver fixture, lines 61-95: the browser is started, or the constructor
\* faults, or --browser names none of the three.
D_Create ==
    /\ run.phase = "create"
    /\ \E r \in {"ok", "fault", "unsupported"} :
          run' = CASE r = "ok" ->
                        [run EXCEPT !.phase = "configure", !.step = 1, !.session = "open"]
                   [] r = "fault" ->
                        [run EXCEPT !.phase = "setup_report", !.setup = "WebDriverException"]
                   [] r = "unsupported" ->
                        [run EXCEPT !.phase = "setup_report", !.setup = "UsageError"]
    /\ UNCHANGED <<pagevars, cfgvars>>

\* lines 98-100
Configuration == <<"maximize_window", "set_page_load_timeout", "implicitly_wait">>

\* driver fixture, lines 98-102: the three configuration commands, then the
\* yield.  A command that raises ends the generator before its yield, so
\* pytest registers no finalizer for the fixture.
D_Configure ==
    /\ run.phase = "configure"
    /\ \E r \in {"ok", "fault"} :
          run' = IF r = "fault"
                 THEN [run EXCEPT !.phase = "setup_report", !.setup = "WebDriverException"]
                 ELSE IF run.step < Len(Configuration)
                 THEN [run EXCEPT !.step = run.step + 1]
                 ELSE [run EXCEPT !.yielded = run.yielded \cup {"driver"},
                                  !.phase = IF run.item.login THEN "login_config"
                                            ELSE "setup_report",
                                  !.setup = IF run.item.login THEN "none" ELSE "passed"]
    /\ UNCHANGED <<pagevars, cfgvars>>

\* login_fixture, lines 123-125: the settings
L_Config ==
    /\ run.phase = "login_config"
    /\ LET r == ReadSettings(env, config, fileExists, fileContent, reads) IN
       /\ config' = r.config
       /\ reads' = r.reads
       /\ run' = IF r.exc = "none"
                 THEN [run EXCEPT !.phase = "login_get", !.url = r.url,
                                  !.username = r.username, !.password = r.password]
                 ELSE [run EXCEPT !.phase = "setup_report", !.setup = r.exc]
    /\ UNCHANGED <<pagevars, env, fileExists, fileContent, altFile>>

\* login_fixture, line 129: driver.get(user_login_url)
L_Get ==
    /\ run.phase = "login_get"
    /\ \E r \in {"ok", "fault"} :
          run' = IF r = "ok"
                 THEN [run EXCEPT !.phase = "login", !.step = 1, !.trace = <<>>]
                 ELSE [run EXCEPT !.phase = "setup_report", !.setup = "WebDriverException"]
    /\ UNCHANGED <<pagevars, cfgvars>>

\* The next page-object call of the script in progress is made.
S_Call ==
    /\ run.phase \in {"login", "body"}
    /\ run.step <= Len(Script(run))
    /\ LET c == Script(run)[run.step] IN
       CASE c.op = "open_url" -> CallOpenUrl(c.text, NoLocator, c.timeout)
         [] c.op = "type"     -> CallType(c.locator, c.text, c.timeout, TRUE, FALSE)
         [] c.op = "click"    -> CallClick(c.locator, c.timeout)
         [] c.op \in {"get_text", "element_value"} -> CallRead(c.op, c.locator, c.timeout)
         [] c.op = "find_visible" -> CallLocate(c.op, c.locator, c.timeout)

\* The call returns or raises: the script goes on, or ends with the
\* exception (wait_for_toast, pim_page.py lines 84-90, swallows it).
S_Done ==
    /\ run.phase \in {"login", "body"}
    /\ pc = "done"
    /\ LET c    == Script(run)[run.step]
           went == exc = "none" \/ c.swallow
           t    == Append(run.trace, [step |-> c, exc |-> exc, ret |-> ret])
       IN  run' =
             IF went
             THEN [run EXCEPT !.trace = t,
                              !.step = run.step + 1,
                              !.final_empid =
                                  IF c.op = "element_value" THEN ret ELSE run.final_empid,
                              !.phase =
                                  IF run.step < Len(Script(run)) THEN run.phase
                                  ELSE IF run.phase = "login" THEN "login_assert"
                                  ELSE "body_assert"]
             ELSE IF run.phase = "login"
             THEN [run EXCEPT !.trace = t, !.phase = "setup_report", !.setup = exc]
             ELSE [run EXCEPT !.trace = t, !.phase = "call_report", !.body = exc]
    /\ ResetPage
    /\ UNCHANGED <<default_timeout, cfgvars>>

L_Assert_YieldsAnyway ==
    /\ run.phase = "login_assert"
    /\ run' = [run EXCEPT !.login_text = run.trace[Len(run.trace)].ret,
                          !.yielded = run.yielded \cup {"login_fixture"},
                          !.phase = "setup_report", !.setup = "passed"]
    /\ UNCHANGED <<pagevars, cfgvars>>

\* login_fixture, lines 142-156: actual_text is compared with "Dashboard"; the
\* fixture yields the dashboard page, or goes to capture a screenshot.
L_Assert ==
    /\ run.phase = "login_assert"
    /\ LET actual_text == run.trace[Len(run.trace)].ret IN
       run' = IF actual_text = Dashboard
              THEN [run EXCEPT !.login_text = actual_text,
                               !.yielded = run.yielded \cup {"login_fixture"},
                               !.phase = "setup_report", !.setup = "passed"]
              ELSE [run EXCEPT !.login_text = actual_text, !.phase = "login_shot"]
    /\ UNCHANGED <<pagevars, cfgvars>>

\* login_fixture, lines 146-153: the screenshot is attempted, its fault is
\* logged, and the AssertionError is re-raised.
L_Shot ==
    /\ run.phase = "login_shot"
    /\ \E r \in {"ok", "fault"} :
          run' = [run EXCEPT !.shots = Append(run.shots, [by |-> "login_fixture", res |-> r]),
                            !.phase = "setup_report", !.setup = "AssertionError"]
    /\ UNCHANGED <<pagevars, cfgvars>>

\* pytest_runtest_makereport for the setup report, lines 188-191: rep.when is
\* "setup", nothing is captured.  A failed setup skips the call phase.
ReportSetup ==
    /\ run.phase = "setup_report"
    /\ run' = IF run.setup = "passed"
              THEN [run EXCEPT !.phase = "body", !.step = 1, !.trace = <<>>]
              ELSE [run EXCEPT !.phase = "teardown_login"]
    /\ UNCHANGED <<pagevars, cfgvars>>

\* The text a test body expects of its last read, <<>> when it compares none
\* (test_user_login.py line 33, test_add_employee.py line 44).
Expected(name) ==
    CASE name = "test_userLogin"    -> Dashboard
      [] name = "test_add_employee" -> RecordFound
      [] OTHER                      -> <<>>

\* The assertion that ends a test body.
B_Assert ==
    /\ run.phase = "body_assert"
    /\ LET actual_text == run.trace[Len(run.trace)].ret
           holds == Expected(run.item.name) = <<>> \/ actual_text = Expected(run.item.name)
       IN  run' = [run EXCEPT !.phase = "call_report",
                             !.body = IF holds THEN "passed" ELSE "AssertionError"]
    /\ UNCHANGED <<pagevars, cfgvars>>

\* pytest_runtest_makereport for the call report, lines 188-204: a failed call
\* of a test that requests driver has its screenshot attempted; a fault of
\* the capture is logged.
ReportCall ==
    /\ run.phase = "call_report"
    /\ IF run.body # "passed"
       THEN \E r \in {"ok", "fault"} :
               run' = [run EXCEPT !.shots = Append(run.shots, [by |-> "hook", res |-> r]),
                                 !.phase = "teardown_login"]
       ELSE run' = [run EXCEPT !.phase = "teardown_login"]
    /\ UNCHANGED <<pagevars, cfgvars>>

\* login_fixture, lines 158-163: UserDashboardPage has no logout, nothing is
\* done.
T_Login ==
    /\ run.phase = "teardown_login"
    /\ run' = [run EXCEPT !.phase = "teardown_driver"]
    /\ UNCHANGED <<pagevars, cfgvars>>

\* driver fixture, lines 104-108, run by pytest only if the fixture yielded:
\* driver.quit(), a fault is logged.
T_Driver ==
    /\ run.phase = "teardown_driver"
    /\ IF "driver" \in run.yielded
       THEN \E r \in {"ok", "fault"} :
               run' = [run EXCEPT !.quits = run.quits + 1,
                                 !.session = IF r = "ok" THEN "quit" ELSE run.session,
                                 !.phase = "end"]
       ELSE run' = [run EXCEPT !.phase = "end"]
    /\ UNCHANGED <<pagevars, cfgvars>>

RunSettings ==
    [EmptyFile EXCEPT !["user_login_url"] = Some(Base("l", 0)),
                      !["user_email"] = Some(<<"u">>),
                      !["user_password"] = Some(<<"p">>)]

RunInit ==
    /\ PageInit
    /\ default_timeout = 1
    /\ env = EmptyEnv
    /\ fileExists \in BOOLEAN
    /\ fileContent = IF fileExists THEN RunSettings ELSE EmptyFile
    /\ config = None
    /\ reads = 0
    /\ altFile = None
    /\ \E i \in Items : run = NewRun(i)

RunNext ==
    \/ ClassBody
    \/ D_Create
    \/ D_Configure
    \/ L_Config
    \/ L_Get
    \/ S_Call
    \/ S_Done
    \/ L_Assert
    \/ L_Shot
    \/ ReportSetup
    \/ B_Assert
    \/ ReportCall
    \/ T_Login
    \/ T_Driver
    \/ OU_Validate
    \/ OU_Get
    \/ OU_GetShot
    \/ OU_Ready
    \/ OU_ReadyShot
    \/ TY_Find
    \/ TY_Click
    \/ TY_Clear
    \/ TY_ClearKeys
    \/ TY_Text
    \/ CL_Find
    \/ CL_Click
    \/ CL_Script
    \/ GT_Find
    \/ GT_Read
    \/ EV_Find
    \/ EV_Read
    \/ LC_Wait
    \/ LC_Return

\* pytest runs the protocol of an item to its end, and every wait of the
\* interaction layer is bounded by its timeout.
SpecRun == RunInit /\ [][RunNext]_vars /\ WF_vars(RunNext)

----------------------------------------------------------------------------
(* The run of a test item: properties *)

\* The test is reported as failed: its setup or its call raised.
Failed(r) == r.setup \notin {"none", "passed"} \/ r.body \notin {"none", "passed"}

ShotBy(r, who) == \E i \in 1..Len(r.shots) : r.shots[i].by = who

\* C13: quit is attempted at most once on the browser session, and every
\* session the driver fixture has started is eventually quit, whatever the
\* outcome of the test and of the fixture's own configuration commands.
C13_SessionEventuallyQuit ==
    /\ [](run.quits <= 1)
    /\ (run.session = "open") ~> (run.quits = 1)

\* What does hold for C13: a session whose fixture reached its yield is quit
\* exactly once by the end of the run, whether the login fixture or the body
\* failed or not.
C13_YieldedSessionQuitOnce ==
    /\ [](run.quits <= 1)
    /\ ("driver" \in run.yielded) ~> (run.phase = "end" /\ run.quits = 1)

\* C15: by the end of a test that was given a browser session and failed, in
\* the login fixture or in its body, with an assertion mismatch or a timeout,
\* the login fixture or the failure hook has attempted a screenshot, and the
\* failure reported is the test's own.
C15_FailingTestHasScreenshot ==
    ( /\ run.phase = "end"
      /\ "driver" \in run.yielded
      /\ \/ run.setup \in {"AssertionError", "TimeoutException"}
         \/ run.body \in {"AssertionError", "TimeoutException"} ) =>
        /\ Len(run.shots) >= 1
        /\ ShotBy(run, "login_fixture") => run.setup = "AssertionError"

\* What does hold for C15: a failed call phase has the hook's screenshot
\* attempted, a login whose heading is not "Dashboard" has the fixture's, and
\* neither capture changes the failure reported.
C15_FailedCallOrLoginMismatchHasScreenshot ==
    run.phase = "end" =>
        /\ run.body \notin {"none", "passed"} <=> ShotBy(run, "hook")
        /\ ShotBy(run, "login_fixture") <=>
               (run.setup = "AssertionError" /\ run.login_text # Dashboard)
        /\ Len(run.shots) <= 1

\* The body of the test is running or has run.
InBody(r) == r.setup = "passed" /\ r.phase # "setup_report"

\* C16: in test_add_employee the id typed into the search field is the value
\* element_value() returned for the Employee Id field right after the
\* generated id was typed into it, whether or not it equals the generated id;
\* and the test passes exactly when, after that search, the confirmation text
\* read is "(1) Record Found".
C16_SearchUsesIdReadBack ==
    (run.item.name = "test_add_employee" /\ InBody(run)) =>
        LET t == run.trace IN
        /\ (run.phase = "body" /\ pc # "idle" /\ call.locator = "_emp_info_empid") =>
               /\ call.op = "type"
               /\ Len(t) = 14
               /\ call.text = t[7].ret
        /\ \A i \in 1..Len(t) :
               t[i].step.locator = "_emp_info_empid" =>
                   /\ i = 15
                   /\ t[6].step = Step("type", "_empid", GenId)
                   /\ t[6].exc = "none"
                   /\ t[7].step = Step("element_value", "_empid", <<>>)
                   /\ t[7].exc = "none"
                   /\ t[i].step.text = t[7].ret
        /\ run.body = "passed" <=>
               ( /\ run.phase \in {"call_report", "teardown_login", "teardown_driver", "end"}
                 /\ Len(t) = 17
                 /\ t[12].step = Step("click", "_save_details", <<>>)
                 /\ t[15].step.text = t[7].ret
                 /\ t[17].exc = "none"
                 /\ t[17].ret = RecordFound )

\* The test passed with an id read back that is not the generated one.
C16_Witness ==
    /\ run.item.name = "test_add_employee"
    /\ run.phase = "end"
    /\ run.body = "passed"
    /\ run.final_empid = <<"7">>
    /\ run.final_empid # GenId
    /\ run.trace[15].step.text = <<"7">>

\* C17: the login fixture has opened the login URL, typed the user name and
\* the password, clicked Login and read the dashboard heading, in this order
\* and each without an exception, before it compares the heading; it yields
\* only if the heading read is exactly "Dashboard", so the body of a test
\* that requests login_fixture runs only after that text was observed.
C17_BodyStartsLoggedIn ==
    /\ run.phase = "login_assert" =>
           /\ Len(run.trace) = 5
           /\ \A i \in 1..5 :
                  /\ run.trace[i].exc = "none"
                  /\ run.trace[i].step =
                         LoginScript(RunSettings["user_login_url"].v,
                                     RunSettings["user_email"].v,
                                     RunSettings["user_password"].v)[i]
    /\ "login_fixture" \in run.yielded => run.login_text = Dashboard
    /\ (run.item.login /\ (InBody(run) \/ run.body # "none")) =>
           /\ "login_fixture" \in run.yielded
           /\ run.login_text = Dashboard
    /\ (run.item.name = "test_userLogin" /\ run.body = "passed") =>
           run.trace[Len(run.trace)].ret = Dashboard

\* A body that requested login_fixture is in the middle of its first call.
C17_Witness ==
    /\ run.item.login
    /\ run.phase = "body"
    /\ run.step = 1
    /\ pc = "cl_click"
    /\ run.login_text = Dashboard

====
